---- MODULE Spec2Model ----
(***************************************************************************)
(* Layout engine (BinPacker) and pointer-interaction controller            *)
(* (SceneManager) of hypernovum.                                           *)
(*                                                                         *)
(* Lengths are integers counted in 200ths of a world unit, so that the     *)
(* half-grid values produced by centring (2.5, 1.25), the building sizes   *)
(* and differences below the tolerance 0.01 of the bounds are exact.       *)
(* Scopes are counted in 1600ths, so that their square roots, counted in   *)
(* 40ths, are exact.  Times are milliseconds.                              *)
(***************************************************************************)
EXTENDS Integers, Sequences, FiniteSets, TLC

\* model units per world unit
U == 8 * 25

Abs(v) == IF v < 0 THEN -v ELSE v
Max2(a, b) == IF a >= b THEN a ELSE b
Min2(a, b) == IF a <= b THEN a ELSE b

SetMin(S) == CHOOSE m \in S : \A o \in S : m <= o
SetMax(S) == CHOOSE m \in S : \A o \in S : m >= o

\* Math.round(n / d) for d > 0: floor(n/d + 1/2), halves go towards +infinity
MathRound(n, d) == (2 * n + d) \div (2 * d)

\* a scope of n whole units
Whole(n) == n * (40 * 40)

\* Math.sqrt on the squares the snapshots use: the root in 40ths of a scope
\* in 1600ths
MathSqrt(n) == CHOOSE r \in 0..(40 * 25) : r * r = n

(***************************************************************************)
(* BinPacker                                                               *)
(***************************************************************************)
buildingSpacing == 2 * U
buildingsPerRow == 4
blockGap == 15 * U
stageGap == 10 * U
gridSize == 5 * U

snapToGrid(value) == MathRound(value, gridSize) * gridSize

stages == <<"backlog", "active", "paused", "complete">>

\* the stage comparator taking every stage for the same
stageIndexOfNone(stage) == 0

\* stages.indexOf(stage)
stageIndexOf(stage) ==
    IF \E i \in 1..Len(stages) : stages[i] = stage
    THEN (CHOOSE i \in 1..Len(stages) : stages[i] = stage) - 1
    ELSE -1

\* priorityOrder[priority] ?? 2
priorityOrder(priority) ==
    CASE priority = "critical" -> 0
      [] priority = "high" -> 1
      [] priority = "medium" -> 2
      [] priority = "low" -> 3
      [] OTHER -> 2

\* (stories[priority] ?? 2) * storyHeight, storyHeight = 2.5
calculateHeight(priority) ==
    CASE priority = "critical" -> (35 * U) \div 2
      [] priority = "high" -> (25 * U) \div 2
      [] priority = "medium" -> (15 * U) \div 2
      [] priority = "low" -> (15 * U) \div 4
      [] OTHER -> 5 * U

\* the scope of an entity that has none (undefined)
NoScope == -1

\* NaN as a width, height or depth
NaN == -1

\* Math.max(2, Math.min(4, Math.sqrt(scope) * 0.4)); the root of undefined
\* or of a negative number is NaN, and so are Math.min and Math.max of it
baseSize(scope) ==
    IF scope < 0 THEN NaN
    ELSE Max2(2 * U, Min2(4 * U, (MathSqrt(scope) * 2 * U) \div (5 * 40)))

\* `${project.stage}_${project.category}`
districtKey(project) == project.stage \o "_" \o project.category

\* Array.prototype.sort with a numeric comparator is stable: the element at
\* index i goes after every element of smaller rank and every earlier element
\* of equal rank.
\* ranks[i] is the rank the comparator gives seq[i].
StableSortBy(seq, ranks) ==
    LET pos(i) == Cardinality({j \in 1..Len(seq) :
                      \/ ranks[j] < ranks[i]
                      \/ ranks[j] = ranks[i] /\ j < i}) + 1
    IN [k \in 1..Len(seq) |-> seq[CHOOSE i \in 1..Len(seq) : pos(i) = k]]

\* the distinct values of a sequence in order of first appearance
\* (insertion order of a Map or a Set)
RECURSIVE Distinct(_)
Distinct(seq) ==
    IF seq = <<>> THEN <<>>
    ELSE LET front == Distinct(SubSeq(seq, 1, Len(seq) - 1))
             last == seq[Len(seq)]
         IN IF \E i \in 1..Len(front) : front[i] = last
            THEN front ELSE Append(front, last)

\* String order of the category names the snapshots use (Array.sort default)
categoryOrder == <<"art", "infra", "web">>
categoryRank(c) == CHOOSE i \in 1..Len(categoryOrder) : categoryOrder[i] = c

\* step 1 of packDistricts with the push inside the creation of the district:
\* every district keeps only the entity that created it
groupDistrictsFirstOnly(projects) ==
    LET keys == Distinct([i \in 1..Len(projects) |-> districtKey(projects[i])])
        first(k) == CHOOSE i \in 1..Len(projects) :
                        /\ districtKey(projects[i]) = k
                        /\ \A j \in 1..(i - 1) : districtKey(projects[j]) # k
    IN [n \in 1..Len(keys) |->
           [key |-> keys[n],
            stage |-> projects[first(keys[n])].stage,
            category |-> projects[first(keys[n])].category,
            buildings |-> <<projects[first(keys[n])]>>,
            bounds |-> [x |-> 0, z |-> 0, width |-> 0, depth |-> 0]]]

\* step 1 of packDistricts: the districts in insertion order, each with its
\* members in input order
groupDistricts(projects) ==
    LET keys == Distinct([i \in 1..Len(projects) |-> districtKey(projects[i])])
        first(k) == CHOOSE i \in 1..Len(projects) :
                        /\ districtKey(projects[i]) = k
                        /\ \A j \in 1..(i - 1) : districtKey(projects[j]) # k
        InKey(k, p) == districtKey(p) = k
    IN [n \in 1..Len(keys) |->
           [key |-> keys[n],
            stage |-> projects[first(keys[n])].stage,
            category |-> projects[first(keys[n])].category,
            buildings |-> SelectSeq(projects, LAMBDA p : InKey(keys[n], p)),
            bounds |-> [x |-> 0, z |-> 0, width |-> 0, depth |-> 0]]]

\* the slots filled column by column
slotPositionColumns(index, startX, startZ) ==
    LET row == index % buildingsPerRow
        col == index \div buildingsPerRow
        cellSize == gridSize + buildingSpacing
    IN [x |-> snapToGrid(startX + col * cellSize + gridSize \div 2),
        z |-> snapToGrid(startZ + row * cellSize + gridSize \div 2)]

\* the position of the member at a sorted index, from the start of its district
slotPosition(index, startX, startZ) ==
    LET row == index \div buildingsPerRow
        col == index % buildingsPerRow
        cellSize == gridSize + buildingSpacing
    IN [x |-> snapToGrid(startX + col * cellSize + gridSize \div 2),
        z |-> snapToGrid(startZ + row * cellSize + gridSize \div 2)]

\* arrangeGridLayout without the sort: the members in input order
arrangeGridLayoutUnsorted(district, startX, startZ) ==
    [district EXCEPT !.buildings =
        [i \in 1..Len(district.buildings) |->
            [id |-> district.buildings[i].id,
             category |-> district.buildings[i].category,
             stage |-> district.buildings[i].stage,
             priority |-> district.buildings[i].priority,
             scope |-> district.buildings[i].scope,
             position |-> slotPosition(i - 1, startX, startZ),
             dimensions |-> [width |-> baseSize(district.buildings[i].scope),
                             height |-> calculateHeight(district.buildings[i].priority),
                             depth |-> baseSize(district.buildings[i].scope)]]]]

\* arrangeGridLayout: the members sorted by priority, each with its position
\* and dimensions
arrangeGridLayout(district, startX, startZ) ==
    LET sorted == StableSortBy(district.buildings,
                               [i \in 1..Len(district.buildings) |->
                                   priorityOrder(district.buildings[i].priority)])
    IN [district EXCEPT !.buildings =
           [i \in 1..Len(sorted) |->
               [id |-> sorted[i].id,
                category |-> sorted[i].category,
                stage |-> sorted[i].stage,
                priority |-> sorted[i].priority,
                scope |-> sorted[i].scope,
                position |-> slotPosition(i - 1, startX, startZ),
                dimensions |-> [width |-> baseSize(sorted[i].scope),
                                height |-> calculateHeight(sorted[i].priority),
                                depth |-> baseSize(sorted[i].scope)]]]]

\* a district taken to have no width
blockWidthNone(buildingCount) == 0

\* blockWidth and blockDepth of a district of buildingCount members
blockWidth(buildingCount) ==
    snapToGrid(Min2(buildingCount, buildingsPerRow) * (gridSize + buildingSpacing))
blockDepth(buildingCount) ==
    snapToGrid(((buildingCount + buildingsPerRow - 1) \div buildingsPerRow)
                   * (gridSize + buildingSpacing))

\* the inner loop of packDistricts: the districts of one category, already in
\* stage order, laid left to right from currentX
RECURSIVE layoutRow(_, _, _)
layoutRow(categoryDistricts, currentX, currentZ) ==
    IF categoryDistricts = <<>> THEN <<>>
    ELSE LET district == Head(categoryDistricts)
             n == Len(district.buildings)
             placed == [arrangeGridLayout(district, currentX, currentZ)
                          EXCEPT !.bounds =
                              [x |-> currentX, z |-> currentZ,
                               width |-> Max2(blockWidth(n), gridSize),
                               depth |-> Max2(blockDepth(n), gridSize)]]
         IN <<placed>> \o layoutRow(Tail(categoryDistricts),
                                    snapToGrid(currentX + blockWidth(n) + stageGap),
                                    currentZ)

\* the outer loop of packDistricts over the sorted categories
RECURSIVE layoutCategories(_, _, _)
layoutCategories(categories, districts, currentZ) ==
    IF categories = <<>> THEN <<>>
    ELSE LET category == Head(categories)
             ofCategory == SelectSeq(districts, LAMBDA d : d.category = category)
             categoryDistricts ==
                 StableSortBy(ofCategory,
                              [i \in 1..Len(ofCategory) |->
                                  stageIndexOf(ofCategory[i].stage)])
             maxDepthInCategory ==
                 SetMax({0} \cup {blockDepth(Len(categoryDistricts[i].buildings)) :
                                      i \in 1..Len(categoryDistricts)})
         IN IF categoryDistricts = <<>>
            THEN layoutCategories(Tail(categories), districts, currentZ)
            ELSE layoutRow(categoryDistricts, gridSize, currentZ)
                   \o layoutCategories(Tail(categories), districts,
                          snapToGrid(currentZ + maxDepthInCategory + blockGap))

\* packDistricts: the laid-out districts (a sequence, in placement order)
packDistricts(projects) ==
    LET districts == groupDistricts(projects)
        unique == Distinct([i \in 1..Len(projects) |-> projects[i].category])
        categories == StableSortBy(unique,
                                   [i \in 1..Len(unique) |-> categoryRank(unique[i])])
    IN layoutCategories(categories, districts, gridSize)

\* the projects of a layout, each with position and dimensions, district
\* by district
RECURSIVE laidOut(_)
laidOut(districts) ==
    IF districts = <<>> THEN <<>>
    ELSE Head(districts).buildings \o laidOut(Tail(districts))

(***************************************************************************)
(* SceneManager: the pure parts of a rebuild and of a move                 *)
(***************************************************************************)
NoOffsets == [c \in {} |-> [offsetX |-> 0, offsetZ |-> 0]]

\* positions.get(category) || { offsetX: 0, offsetZ: 0 }
getOffset(offsets, category) ==
    IF category \in DOMAIN offsets THEN offsets[category]
    ELSE [offsetX |-> 0, offsetZ |-> 0]

\* Map.set
setOffset(offsets, category, offset) ==
    [c \in DOMAIN offsets \cup {category} |->
        IF c = category THEN offset ELSE offsets[c]]

\* the projects handed to buildCity: the input list, in input order, each
\* with the position and dimensions the layout wrote into it
positioned(projects, districts) ==
    LET all == laidOut(districts)
    IN [i \in 1..Len(projects) |->
           all[CHOOSE k \in 1..Len(all) : all[k].id = projects[i].id]]

\* buildCity, "Center the layout on origin": the midpoint of the extreme
\* positions is subtracted from every position
centerProjects(projects) ==
    IF projects = <<>> THEN projects
    ELSE LET xs == {projects[i].position.x : i \in 1..Len(projects)}
             zs == {projects[i].position.z : i \in 1..Len(projects)}
             offsetX == (SetMin(xs) + SetMax(xs)) \div 2
             offsetZ == (SetMin(zs) + SetMax(zs)) \div 2
         IN [i \in 1..Len(projects) |->
                [projects[i] EXCEPT !.position.x = @ - offsetX,
                                    !.position.z = @ - offsetZ]]

\* ... and from the origin of every district's bounds
centerDistricts(projects, districts) ==
    IF projects = <<>> THEN districts
    ELSE LET xs == {projects[i].position.x : i \in 1..Len(projects)}
             zs == {projects[i].position.z : i \in 1..Len(projects)}
             offsetX == (SetMin(xs) + SetMax(xs)) \div 2
             offsetZ == (SetMin(zs) + SetMax(zs)) \div 2
         IN [n \in 1..Len(districts) |->
                [districts[n] EXCEPT !.bounds.x = @ - offsetX,
                                     !.bounds.z = @ - offsetZ]]

\* addBlockOutlines: one block per category, its bounds the union of the
\* bounds of the category's districts (the padding goes into the drawn
\* outline only)
addBlockOutlines(districts) ==
    LET cats == {districts[n].category : n \in 1..Len(districts)}
        of(c) == {n \in 1..Len(districts) : districts[n].category = c}
    IN [c \in cats |->
           [minX |-> SetMin({districts[n].bounds.x : n \in of(c)}),
            maxX |-> SetMax({districts[n].bounds.x + districts[n].bounds.width :
                                n \in of(c)}),
            minZ |-> SetMin({districts[n].bounds.z : n \in of(c)}),
            maxZ |-> SetMax({districts[n].bounds.z + districts[n].bounds.depth :
                                n \in of(c)})]]

\* the tight box of the footprints of a category's buildings
tightBounds(bs, category) ==
    LET of == {i \in 1..Len(bs) : bs[i].category = category}
    IN [minX |-> SetMin({bs[i].position.x - bs[i].dimensions.width \div 2 : i \in of}),
        maxX |-> SetMax({bs[i].position.x + bs[i].dimensions.width \div 2 : i \in of}),
        minZ |-> SetMin({bs[i].position.z - bs[i].dimensions.depth \div 2 : i \in of}),
        maxZ |-> SetMax({bs[i].position.z + bs[i].dimensions.depth \div 2 : i \in of})]

\* recalcBlockBounds storing the padded outline, snapped to the grid, as the
\* bounds
recalcBlockBoundsPadded(bs, bl, category) ==
    IF category \notin DOMAIN bl THEN bl
    ELSE IF {i \in 1..Len(bs) : bs[i].category = category} = {} THEN bl
    ELSE LET nb == tightBounds(bs, category)
             padding == 3 * U
         IN [bl EXCEPT ![category] =
                [minX |-> snapToGrid(nb.minX - padding),
                 maxX |-> snapToGrid(nb.maxX + padding),
                 minZ |-> snapToGrid(nb.minZ - padding),
                 maxZ |-> snapToGrid(nb.maxZ + padding)]]

\* recalcBlockBounds that only ever widens the bounds
recalcBlockBoundsGrowing(bs, bl, category) ==
    IF category \notin DOMAIN bl THEN bl
    ELSE IF {i \in 1..Len(bs) : bs[i].category = category} = {} THEN bl
    ELSE LET nb == tightBounds(bs, category)
             ob == bl[category]
         IN [bl EXCEPT ![category] =
                [minX |-> Min2(ob.minX, nb.minX), maxX |-> Max2(ob.maxX, nb.maxX),
                 minZ |-> Min2(ob.minZ, nb.minZ), maxZ |-> Max2(ob.maxZ, nb.maxZ)]]

\* recalcBlockBounds: the blocks after the bounds of one category were
\* recomputed from its buildings.  eps = 0.01 is a hundredth of U.
recalcBlockBounds(bs, bl, category) ==
    IF category \notin DOMAIN bl THEN bl
    ELSE IF {i \in 1..Len(bs) : bs[i].category = category} = {} THEN bl
    ELSE LET nb == tightBounds(bs, category)
             ob == bl[category]
         IN IF /\ 100 * Abs(ob.minX - nb.minX) < U /\ 100 * Abs(ob.maxX - nb.maxX) < U
               /\ 100 * Abs(ob.minZ - nb.minZ) < U /\ 100 * Abs(ob.maxZ - nb.maxZ) < U
            THEN bl
            ELSE [bl EXCEPT ![category] = nb]

\* moveSingleBuilding on a mesh of the current city: the building at index i
moveSingleBuildingAt(bs, i, deltaX, deltaZ) ==
    [bs EXCEPT ![i].position.x = @ + deltaX, ![i].position.z = @ + deltaZ]

\* moveBlock moving every building of the city
moveBlockBuildingsAll(bs, category, deltaX, deltaZ) ==
    [i \in 1..Len(bs) |->
        [bs[i] EXCEPT !.position.x = @ + deltaX, !.position.z = @ + deltaZ]]

\* moveBlock: every building of the category
moveBlockBuildings(bs, category, deltaX, deltaZ) ==
    [i \in 1..Len(bs) |->
        IF bs[i].category = category
        THEN [bs[i] EXCEPT !.position.x = @ + deltaX, !.position.z = @ + deltaZ]
        ELSE bs[i]]

\* moveBlock: the bounds of the category's block, when there is one
moveBlockBounds(bl, category, deltaX, deltaZ) ==
    IF category \notin DOMAIN bl THEN bl
    ELSE [bl EXCEPT ![category] =
             [minX |-> @.minX + deltaX, maxX |-> @.maxX + deltaX,
              minZ |-> @.minZ + deltaZ, maxZ |-> @.maxZ + deltaZ]]

\* the pass leaving every building in its grid slot
centerSingleTargetNone(bs, bl, i) == bs[i]

\* centerSingleBuildings: the only building of a category goes to the centre
\* of its block, and the block's bounds are recomputed (0.1 is a tenth of U)
centerSingleTarget(bs, bl, i) ==
    LET block == bl[bs[i].category]
        alone == Cardinality({j \in 1..Len(bs) : bs[j].category = bs[i].category}) = 1
        deltaX == (block.minX + block.maxX) \div 2 - bs[i].position.x
        deltaZ == (block.minZ + block.maxZ) \div 2 - bs[i].position.z
    IN IF alone /\ ~(10 * Abs(deltaX) < U /\ 10 * Abs(deltaZ) < U)
       THEN [bs[i] EXCEPT !.position.x = @ + deltaX, !.position.z = @ + deltaZ]
       ELSE bs[i]

centerSingleBuildings(bs, bl) ==
    [i \in 1..Len(bs) |-> centerSingleTarget(bs, bl, i)]

centerSingleBlocks(bs, bl) ==
    LET moved == centerSingleBuildings(bs, bl)
    IN [c \in DOMAIN bl |->
           IF \E i \in 1..Len(bs) : bs[i].category = c /\ moved[i] # bs[i]
           THEN recalcBlockBounds(moved, bl, c)[c]
           ELSE bl[c]]

\* applySavedPositions: which saved offsets are applied
maxOffset == 500 * U
\* the safety check discarding an offset that reaches the bound
isAppliedBelow(offset) ==
    /\ ~(Abs(offset.offsetX) >= maxOffset \/ Abs(offset.offsetZ) >= maxOffset)
    /\ (offset.offsetX # 0 \/ offset.offsetZ # 0)
isApplied(offset) ==
    /\ ~(Abs(offset.offsetX) > maxOffset \/ Abs(offset.offsetZ) > maxOffset)
    /\ (offset.offsetX # 0 \/ offset.offsetZ # 0)

applySavedBuildings(bs, saved) ==
    [i \in 1..Len(bs) |->
        IF bs[i].category \in DOMAIN saved /\ isApplied(saved[bs[i].category])
        THEN [bs[i] EXCEPT !.position.x = @ + saved[bs[i].category].offsetX,
                           !.position.z = @ + saved[bs[i].category].offsetZ]
        ELSE bs[i]]

applySavedBlocks(bl, saved) ==
    [c \in DOMAIN bl |->
        IF c \in DOMAIN saved /\ isApplied(saved[c])
        THEN moveBlockBounds(bl, c, saved[c].offsetX, saved[c].offsetZ)[c]
        ELSE bl[c]]

applySavedOffsets(saved) ==
    [c \in {k \in DOMAIN saved : isApplied(saved[k])} |-> saved[c]]

\* buildCity of the view and of the scene up to the saved offsets: layout,
\* centring, blocks, buildings, single-building centring
baseCity(projects) ==
    LET packed == packDistricts(projects)
        placed == positioned(projects, packed)
        centred == centerProjects(placed)
        districts == centerDistricts(placed, packed)
        outlines == addBlockOutlines(districts)
    IN [buildings |-> centerSingleBuildings(centred, outlines),
        blocks |-> centerSingleBlocks(centred, outlines)]

Project(i, c, s, p, sc) ==
    [id |-> i, category |-> c, stage |-> s, priority |-> p, scope |-> sc]

\* entity snapshots the feed delivers: the full set, and one in which the
\* category "web" and the project 2 are gone
SnapshotFull == <<Project(1, "art", "active", "medium", Whole(25)),
                  Project(2, "art", "paused", "medium", Whole(100)),
                  Project(3, "web", "active", "high", Whole(36))>>
SnapshotLess == <<Project(1, "art", "active", "medium", Whole(25))>>
Snapshots == {SnapshotFull, SnapshotLess}
\* ... and one of a single category with two districts
SnapshotArt == <<Project(1, "art", "active", "medium", Whole(25)),
                 Project(2, "art", "paused", "medium", Whole(100))>>

\* ... and one of a single district whose first two entities differ in size
\* by 0.01: scopes 25.250625 (root 201/40), 25 and 100
SnapshotClose == <<Project(1, "art", "active", "medium", 201 * 201),
                   Project(2, "art", "active", "medium", Whole(25)),
                   Project(3, "art", "active", "medium", Whole(100))>>
AllSnapshots == Snapshots \cup {SnapshotArt, SnapshotClose}

\* the districts of a snapshot as buildCity leaves them: laid out, centred
baseDistricts(projects) ==
    LET packed == packDistricts(projects)
    IN centerDistricts(positioned(projects, packed), packed)

\* the city of each snapshot before the saved offsets, evaluated once
baseCities == [projects \in AllSnapshots |-> baseCity(projects)]

\* ... and with the saved offsets applied
cityOf(projects, saved) ==
    LET base == baseCities[projects]
    IN [buildings |-> applySavedBuildings(base.buildings, saved),
        blocks |-> applySavedBlocks(base.blocks, saved),
        blockOffsets |-> applySavedOffsets(saved)]

(***************************************************************************)
(* State                                                                   *)
(***************************************************************************)
VARIABLES
    buildings,            \* this.buildings: the projects of the city, in input order
    blocks,               \* this.blocks: category -> bounds
    savedPositions,       \* this.savedPositions: category -> offset
    blockOffsets,         \* this.blockOffsets: category -> cumulative offset
    isDragging,           \* this.isDragging
    draggedBlock,         \* this.draggedBlock
    movingBuilding,       \* this.movingBuilding
    dragStartPoint,       \* this.dragStartPoint (x, z)
    buildingDragStart,    \* this.buildingDragStart (x, z)
    dragAccumulator,      \* this.dragAccumulator (x, y)
    lastClickTime,        \* this.lastClickTime
    lastClickedBuilding,  \* this.lastClickedBuilding
    controlsEnabled,      \* this.controls.enabled
    dragRaw,              \* history: raw movement added to the accumulator since it was zeroed
    dragApplied,          \* history: snapped deltas applied since the accumulator was zeroed
    moves,                \* history: pointer-moves handled while dragging
    entityDragged,        \* history: an entity drag has moved a building in this session
    movedAlone,           \* history: the entities an entity drag has moved since the last rebuild
    lastEntityClicks,     \* history: the entities of the last two pointer-downs on an entity
    stored,               \* host: the layout list in durable storage (settings)
    savedFrom,            \* history: the buildings when that list was saved
    viewOpen,             \* view: this.sceneManager is set
    pending,              \* view: the buildCity calls awaiting parseProjects
    requested,            \* history: the number of buildCity calls of the view
    shownFrom,            \* history: the call whose snapshot the scene was last built from
    layIn,                \* layout run: the entity list given to packDistricts
    layOut,               \* layout run: its districts
    layPermIn,            \* layout run: a reordering of layIn
    layPermOut            \* layout run: the districts of the reordering

sceneVars == <<buildings, blocks, savedPositions, blockOffsets, isDragging,
               draggedBlock, movingBuilding, dragStartPoint, buildingDragStart,
               dragAccumulator, lastClickTime, lastClickedBuilding,
               controlsEnabled, dragRaw, dragApplied, moves, entityDragged,
               lastEntityClicks, movedAlone>>
viewVars == <<viewOpen, pending, requested, shownFrom>>
hostVars == <<stored, savedFrom, viewVars>>
layVars == <<layIn, layOut, layPermIn, layPermOut>>
vars == <<sceneVars, hostVars, layVars>>

\* A mesh is known by the project it shows and by whether the city it was
\* created for has been cleared since (clearCity drops every mesh and
\* buildCity creates new ones).
NoMesh == [id |-> 0, category |-> "none", stale |-> FALSE]
meshOf(bs, i) == [id |-> bs[i].id, category |-> bs[i].category, stale |-> FALSE]
NoBlock == [category |-> "none", stale |-> FALSE]
staleMesh(m) == IF m = NoMesh THEN m ELSE [m EXCEPT !.stale = TRUE]
staleBlock(b) == IF b = NoBlock THEN b ELSE [b EXCEPT !.stale = TRUE]

Origin == [x |-> 0, z |-> 0]
ZeroAcc == [x |-> 0, y |-> 0]

(***************************************************************************)
(* Inputs                                                                  *)
(***************************************************************************)
Offset(ox, oz) == [offsetX |-> ox, offsetZ |-> oz]

\* the stored layouts a session can start from (options.savedPositions):
\* none, an earlier arrangement, a corrupted one
StoredNone == <<>>
StoredEarlier == <<[category |-> "art", offsetX |-> 2 * gridSize, offsetZ |-> -gridSize]>>
StoredCorrupt == <<[category |-> "art", offsetX |-> 10000 * U, offsetZ |-> 0]>>
\* ... one at the sanity bound, and one just past it on one axis next to a
\* sound entry
StoredEdge == <<[category |-> "art", offsetX |-> 500 * U, offsetZ |-> -(500 * U)]>>
StoredMixed == <<[category |-> "art", offsetX |-> 0, offsetZ |-> -(501 * U)],
                 [category |-> "web", offsetX |-> gridSize, offsetZ |-> 0]>>

\* ground points the pointer ray can meet (a ray that misses the ground
\* plane leaves the origin)
Point(px, pz) == [x |-> px, z |-> pz]

\* bound of the exploration: pointer-moves handled while dragging
MaxMoves == 2

(***************************************************************************)
(* SceneManager: constructor and handlers                                  *)
(***************************************************************************)
\* constructor: "Load saved positions"
loadSavedPositions(list) ==
    [c \in {list[i].category : i \in 1..Len(list)} |->
        LET last == SetMax({i \in 1..Len(list) : list[i].category = c})
        IN Offset(list[last].offsetX, list[last].offsetZ)]

\* the order of the blocks Map: categories by first appearance
blockOrder(bs) == Distinct([i \in 1..Len(bs) |-> bs[i].category])

\* a list with entries for the blocks that have a cumulative offset only
savePositionsOfOffsets(bs, bl, offsets) ==
    LET order == SelectSeq(blockOrder(bs),
                           LAMBDA c : c \in DOMAIN bl /\ c \in DOMAIN offsets)
    IN [n \in 1..Len(order) |->
           [category |-> order[n],
            offsetX |-> offsets[order[n]].offsetX,
            offsetZ |-> offsets[order[n]].offsetZ]]

\* triggerSave: the list handed to onSaveLayout
savePositions(bs, bl, offsets) ==
    LET order == SelectSeq(blockOrder(bs), LAMBDA c : c \in DOMAIN bl)
    IN [n \in 1..Len(order) |->
           [category |-> order[n],
            offsetX |-> getOffset(offsets, order[n]).offsetX,
            offsetZ |-> getOffset(offsets, order[n]).offsetZ]]

SceneInit(layouts) ==
    /\ buildings = <<>>
    /\ blocks = [c \in {} |-> 0]
    /\ stored \in layouts
    /\ savedFrom = <<>>
    /\ savedPositions = loadSavedPositions(stored)
    /\ blockOffsets = NoOffsets
    /\ isDragging = FALSE
    /\ draggedBlock = NoBlock
    /\ movingBuilding = NoMesh
    /\ dragStartPoint = Origin
    /\ buildingDragStart = Origin
    /\ dragAccumulator = ZeroAcc
    /\ lastClickTime = 0
    /\ lastClickedBuilding = NoMesh
    /\ controlsEnabled = TRUE
    /\ dragRaw = ZeroAcc
    /\ dragApplied = ZeroAcc
    /\ moves = 0
    /\ entityDragged = FALSE
    /\ lastEntityClicks = <<0, 0>>
    /\ movedAlone = {}
    /\ viewOpen = TRUE
    /\ pending = {}
    /\ requested = 0
    /\ shownFrom = 0

\* packDistricts not called yet
NotPacked == [done |-> FALSE, districts |-> <<>>]
LayIdle ==
    /\ layIn = <<>>
    /\ layOut = NotPacked
    /\ layPermIn = <<>>
    /\ layPermOut = NotPacked

InitWith(layouts) == SceneInit(layouts) /\ LayIdle

\* buildCity (view and scene): a snapshot is laid out and shown; every mesh
\* and block object of the previous city is gone from the scene, the
\* interaction fields are not touched
SceneBuildCity(projects) ==
    LET city == cityOf(projects, savedPositions)
    IN /\ buildings' = city.buildings
       /\ blocks' = city.blocks
       /\ blockOffsets' = city.blockOffsets
       /\ draggedBlock' = staleBlock(draggedBlock)
       /\ movingBuilding' = staleMesh(movingBuilding)
       /\ lastClickedBuilding' = staleMesh(lastClickedBuilding)
       /\ UNCHANGED <<savedPositions, isDragging, dragStartPoint, buildingDragStart,
                      dragAccumulator, lastClickTime, controlsEnabled,
                      dragRaw, dragApplied, moves, entityDragged,
                      lastEntityClicks>>
       /\ movedAlone' = {}

\* buildCity called with a snapshot at hand
BuildCity(projects) ==
    /\ SceneBuildCity(projects)
    /\ UNCHANGED <<hostVars, layVars>>

\* the accumulator zeroed after a delta was applied
accumulatorDropped(acc, snapped) == 0

\* this.dragAccumulator.x -= snappedX: what stays in the accumulator
accumulatorLeft(acc, snapped) == acc - snapped

\* the accumulated movement applied as it is, without the snap
snapDeltaRaw(acc) == acc

\* the accumulated movement cut down to whole cells: Math.floor for Math.round
snapDeltaFloor(acc) == (acc \div gridSize) * gridSize

\* Math.round(accumulator / gridSize) * gridSize
snapDelta(acc) == MathRound(acc, gridSize) * gridSize

\* the buildings after moveSingleBuilding on a mesh: a mesh of a cleared
\* city moves only its own old project
moveSingleBuilding(bs, mesh, deltaX, deltaZ) ==
    IF mesh.stale \/ ~(\E i \in 1..Len(bs) : bs[i].id = mesh.id) THEN bs
    ELSE moveSingleBuildingAt(bs, CHOOSE i \in 1..Len(bs) : bs[i].id = mesh.id,
                              deltaX, deltaZ)

\* onMouseMove, "Handle building move mode dragging"
MoveBuildingDrag(point) ==
    LET accX == dragAccumulator.x + (point.x - buildingDragStart.x)
        accY == dragAccumulator.y + (point.z - buildingDragStart.z)
        snappedX == snapDelta(accX)
        snappedZ == snapDelta(accY)
        applied == snappedX # 0 \/ snappedZ # 0
        bs == moveSingleBuilding(buildings, movingBuilding, snappedX, snappedZ)
    IN /\ isDragging /\ movingBuilding # NoMesh
       /\ moves < MaxMoves
       /\ buildings' = IF applied THEN bs ELSE buildings
       /\ blocks' = IF applied
                    THEN recalcBlockBounds(bs, blocks, movingBuilding.category)
                    ELSE blocks
       /\ dragAccumulator' = IF applied
                             THEN [x |-> accumulatorLeft(accX, snappedX),
                                   y |-> accumulatorLeft(accY, snappedZ)]
                             ELSE [x |-> accX, y |-> accY]
       /\ buildingDragStart' = point
       /\ dragRaw' = [x |-> dragRaw.x + (point.x - buildingDragStart.x),
                      y |-> dragRaw.y + (point.z - buildingDragStart.z)]
       /\ dragApplied' = IF applied THEN [x |-> dragApplied.x + snappedX,
                                          y |-> dragApplied.y + snappedZ]
                         ELSE dragApplied
       /\ moves' = moves + 1
       /\ entityDragged' = (entityDragged \/ bs # buildings)
       /\ movedAlone' = IF bs # buildings
                        THEN movedAlone \cup {movingBuilding.id}
                        ELSE movedAlone
       /\ UNCHANGED <<savedPositions, blockOffsets, isDragging, draggedBlock,
                      movingBuilding, dragStartPoint, lastClickTime,
                      lastClickedBuilding, controlsEnabled, lastEntityClicks>>

\* onMouseMove, "Handle active block dragging with grid snapping"
MoveBlockDrag(point) ==
    LET accX == dragAccumulator.x + (point.x - dragStartPoint.x)
        accY == dragAccumulator.y + (point.z - dragStartPoint.z)
        snappedX == snapDelta(accX)
        snappedZ == snapDelta(accY)
        applied == snappedX # 0 \/ snappedZ # 0
        category == draggedBlock.category
        currentOffset == getOffset(blockOffsets, category)
    IN /\ isDragging /\ movingBuilding = NoMesh /\ draggedBlock # NoBlock
       /\ moves < MaxMoves
       /\ buildings' = IF applied
                       THEN moveBlockBuildings(buildings, category, snappedX, snappedZ)
                       ELSE buildings
       /\ blocks' = IF applied
                    THEN moveBlockBounds(blocks, category, snappedX, snappedZ)
                    ELSE blocks
       /\ blockOffsets' = IF applied
                          THEN setOffset(blockOffsets, category,
                                         Offset(currentOffset.offsetX + snappedX,
                                                currentOffset.offsetZ + snappedZ))
                          ELSE blockOffsets
       /\ dragAccumulator' = IF applied
                             THEN [x |-> accumulatorLeft(accX, snappedX),
                                   y |-> accumulatorLeft(accY, snappedZ)]
                             ELSE [x |-> accX, y |-> accY]
       /\ dragStartPoint' = point
       /\ dragRaw' = [x |-> dragRaw.x + (point.x - dragStartPoint.x),
                      y |-> dragRaw.y + (point.z - dragStartPoint.z)]
       /\ dragApplied' = IF applied THEN [x |-> dragApplied.x + snappedX,
                                          y |-> dragApplied.y + snappedZ]
                         ELSE dragApplied
       /\ moves' = moves + 1
       /\ UNCHANGED <<savedPositions, isDragging, draggedBlock, movingBuilding,
                      buildingDragStart, lastClickTime, lastClickedBuilding,
                      controlsEnabled, entityDragged, lastEntityClicks, movedAlone>>

\* onMouseMove: a drag of a building, else a drag of a block, else hovering,
\* which changes no field modelled here
OnMouseMove(point) ==
    /\ \/ MoveBuildingDrag(point)
       \/ MoveBlockDrag(point)
    /\ UNCHANGED <<hostVars, layVars>>

\* an exit from move mode that leaves a drag on
exitBuildingMoveModeHolding ==
    /\ movingBuilding' = NoMesh
    /\ isDragging' = TRUE
    /\ UNCHANGED <<buildings, blocks, savedPositions, blockOffsets,
                   draggedBlock, dragStartPoint, buildingDragStart, dragAccumulator,
                   lastClickTime, lastClickedBuilding, controlsEnabled,
                   dragRaw, dragApplied, moves>>

\* exitBuildingMoveMode
exitBuildingMoveMode ==
    /\ movingBuilding' = NoMesh
    /\ UNCHANGED <<buildings, blocks, savedPositions, blockOffsets, isDragging,
                   draggedBlock, dragStartPoint, buildingDragStart, dragAccumulator,
                   lastClickTime, lastClickedBuilding, controlsEnabled,
                   dragRaw, dragApplied, moves>>

\* the double-click test of onMouseDown
doubleClickWindow == 400
\* the test on the time alone, whichever building took the previous click
isDoubleClickAnyEntity(hit, at) ==
    lastClickedBuilding # NoMesh /\ at - lastClickTime < doubleClickWindow
\* the test with the bound included
isDoubleClickInclusive(hit, at) ==
    lastClickedBuilding = hit /\ at - lastClickTime <= doubleClickWindow

isDoubleClick(hit, at) ==
    lastClickedBuilding = hit /\ at - lastClickTime < doubleClickWindow

\* onMouseDown with the left button.  at: the reading of Date.now();
\* point: the ground point under the pointer; buildingHit: index of the
\* building the ray meets first, 0 for none; handleHit: category of the
\* handle hit box the ray meets, "none" for none; movingHit: whether the ray
\* meets the mesh held in movingBuilding.
OnMouseDown(at, point, buildingHit, handleHit, movingHit) ==
    /\ buildingHit # 0 /\ movingBuilding = NoMesh => at >= lastClickTime
    /\ UNCHANGED <<entityDragged, movedAlone>>
    /\ lastEntityClicks' =
           IF movingBuilding # NoMesh /\ movingHit
           THEN <<lastEntityClicks[2], movingBuilding.id>>
           ELSE IF buildingHit # 0
                THEN <<lastEntityClicks[2], buildings[buildingHit].id>>
                ELSE lastEntityClicks
    /\ IF movingBuilding # NoMesh
       THEN IF ~movingHit
            THEN exitBuildingMoveMode
            ELSE /\ buildingDragStart' = point
                 /\ isDragging' = TRUE
                 /\ controlsEnabled' = FALSE
                 /\ dragAccumulator' = ZeroAcc
                 /\ dragRaw' = ZeroAcc
                 /\ dragApplied' = ZeroAcc
                 /\ UNCHANGED <<buildings, blocks, savedPositions, blockOffsets,
                                draggedBlock, movingBuilding, dragStartPoint,
                                lastClickTime, lastClickedBuilding, moves>>
       ELSE IF buildingHit # 0 /\ isDoubleClick(meshOf(buildings, buildingHit), at)
            THEN \* enterBuildingMoveMode
                 /\ movingBuilding' = meshOf(buildings, buildingHit)
                 /\ lastClickTime' = 0
                 /\ lastClickedBuilding' = NoMesh
                 /\ UNCHANGED <<buildings, blocks, savedPositions, blockOffsets,
                                isDragging, draggedBlock, dragStartPoint,
                                buildingDragStart, dragAccumulator, controlsEnabled,
                                dragRaw, dragApplied, moves>>
            ELSE /\ IF buildingHit # 0
                    THEN /\ lastClickTime' = at
                         /\ lastClickedBuilding' = meshOf(buildings, buildingHit)
                    ELSE UNCHANGED <<lastClickTime, lastClickedBuilding>>
                 /\ IF handleHit \in DOMAIN blocks
                    THEN /\ isDragging' = TRUE
                         /\ draggedBlock' = [category |-> handleHit, stale |-> FALSE]
                         /\ controlsEnabled' = FALSE
                         /\ dragAccumulator' = ZeroAcc
                         /\ dragRaw' = ZeroAcc
                         /\ dragApplied' = ZeroAcc
                         /\ dragStartPoint' = point
                    ELSE UNCHANGED <<isDragging, draggedBlock, controlsEnabled,
                                     dragAccumulator, dragRaw, dragApplied,
                                     dragStartPoint>>
                 /\ UNCHANGED <<buildings, blocks, savedPositions, blockOffsets,
                                movingBuilding, buildingDragStart, moves>>
    /\ UNCHANGED <<hostVars, layVars>>

\* onKeyDown: Escape exits building move mode
OnKeyDown ==
    /\ movingBuilding # NoMesh
    /\ exitBuildingMoveMode
    /\ UNCHANGED <<entityDragged, lastEntityClicks, movedAlone>>
    /\ UNCHANGED <<hostVars, layVars>>

\* onMouseUp handing the layout to onSaveLayout as soon as the drag ends
OnMouseUpSaving ==
    /\ isDragging
    /\ savedPositions' =
           IF draggedBlock # NoBlock /\ draggedBlock.category \in DOMAIN blockOffsets
           THEN setOffset(savedPositions, draggedBlock.category,
                          blockOffsets[draggedBlock.category])
           ELSE savedPositions
    /\ isDragging' = FALSE
    /\ draggedBlock' = NoBlock
    /\ controlsEnabled' = TRUE
    /\ stored' = savePositions(buildings, blocks, blockOffsets)
    /\ savedFrom' = buildings
    /\ UNCHANGED <<buildings, blocks, blockOffsets, movingBuilding, dragStartPoint,
                   buildingDragStart, dragAccumulator, lastClickTime,
                   lastClickedBuilding, dragRaw, dragApplied, moves, entityDragged,
                   lastEntityClicks, movedAlone>>
    /\ UNCHANGED <<viewVars, layVars>>

\* onMouseUp that also leaves move mode
OnMouseUpDisarming ==
    /\ isDragging
    /\ savedPositions' =
           IF draggedBlock # NoBlock /\ draggedBlock.category \in DOMAIN blockOffsets
           THEN setOffset(savedPositions, draggedBlock.category,
                          blockOffsets[draggedBlock.category])
           ELSE savedPositions
    /\ isDragging' = FALSE
    /\ draggedBlock' = NoBlock
    /\ movingBuilding' = NoMesh
    /\ controlsEnabled' = TRUE
    /\ UNCHANGED <<buildings, blocks, blockOffsets, dragStartPoint,
                   buildingDragStart, dragAccumulator, lastClickTime,
                   lastClickedBuilding, dragRaw, dragApplied, moves, entityDragged,
                   lastEntityClicks, movedAlone>>
    /\ UNCHANGED <<hostVars, layVars>>

\* onMouseUp while dragging: the dragged block's cumulative offset goes to
\* savedPositions, the drag ends
OnMouseUp ==
    /\ isDragging
    /\ savedPositions' =
           IF draggedBlock # NoBlock /\ draggedBlock.category \in DOMAIN blockOffsets
           THEN setOffset(savedPositions, draggedBlock.category,
                          blockOffsets[draggedBlock.category])
           ELSE savedPositions
    /\ isDragging' = FALSE
    /\ draggedBlock' = NoBlock
    /\ controlsEnabled' = TRUE
    /\ UNCHANGED <<buildings, blocks, blockOffsets, movingBuilding, dragStartPoint,
                   buildingDragStart, dragAccumulator, lastClickTime,
                   lastClickedBuilding, dragRaw, dragApplied, moves, entityDragged,
                   lastEntityClicks, movedAlone>>
    /\ UNCHANGED <<hostVars, layVars>>

\* triggerSave. onSaveLayout: whether the scene was given the callback; with
\* the view's saveLayout as onSaveLayout the list of the current blocks'
\* offsets replaces the stored one, without a callback nothing happens
TriggerSaveWith(onSaveLayout) ==
    /\ stored' = IF onSaveLayout
                 THEN savePositions(buildings, blocks, blockOffsets)
                 ELSE stored
    /\ savedFrom' = IF onSaveLayout THEN buildings ELSE savedFrom
    /\ UNCHANGED <<sceneVars, viewVars, layVars>>

TriggerSave == \E onSaveLayout \in BOOLEAN : TriggerSaveWith(onSaveLayout)

\* the view is opened again: a new SceneManager is constructed with the stored
\* list as options.savedPositions
NewSession ==
    /\ buildings' = <<>>
    /\ blocks' = [c \in {} |-> 0]
    /\ savedPositions' = loadSavedPositions(stored)
    /\ blockOffsets' = NoOffsets
    /\ isDragging' = FALSE
    /\ draggedBlock' = NoBlock
    /\ movingBuilding' = NoMesh
    /\ dragStartPoint' = Origin
    /\ buildingDragStart' = Origin
    /\ dragAccumulator' = ZeroAcc
    /\ lastClickTime' = 0
    /\ lastClickedBuilding' = NoMesh
    /\ controlsEnabled' = TRUE
    /\ dragRaw' = ZeroAcc
    /\ dragApplied' = ZeroAcc
    /\ entityDragged' = FALSE
    /\ lastEntityClicks' = <<0, 0>>
    /\ movedAlone' = {}
    /\ UNCHANGED <<moves, hostVars, layVars>>

\* the inputs of a pointer-down that the handler reads in the current state:
\* with a building armed whether the ray meets it (and where it meets the
\* ground when it does), else which other building is under the pointer;
\* otherwise the building and the handle under the pointer, the clock when a
\* building is hit, the ground point when a handle is hit
MouseDownInputs(readings, points) ==
    IF movingBuilding # NoMesh
    THEN {<<SetMin(readings), Origin, b, "none", FALSE>> :
             b \in {0} \cup {i \in 1..Len(buildings) :
                                 meshOf(buildings, i) # movingBuilding}}
           \cup {<<SetMin(readings), p, 0, "none", TRUE>> : p \in points}
    ELSE {<<IF b = 0 THEN SetMin(readings) ELSE at,
             IF h = "none" THEN Origin ELSE p, b, h, FALSE>> :
             at \in readings, p \in points, b \in 0..Len(buildings),
             h \in DOMAIN blocks \cup {"none"}}

(***************************************************************************)
(* The layout engine on its own: packDistricts applied to an entity list   *)
(* and to a reordering of it                                               *)
(***************************************************************************)
\* the kinds of entity the lists are drawn from: two priorities of equal
\* rank (an unknown priority has the rank of medium), a higher one, two
\* stages outside the canonical list, a second category
EntityKinds ==
    { [category |-> "art", stage |-> "active", priority |-> "medium", scope |-> Whole(25)],
      [category |-> "art", stage |-> "active", priority |-> "urgent", scope |-> Whole(36)],
      [category |-> "art", stage |-> "active", priority |-> "high", scope |-> Whole(100)],
      [category |-> "art", stage |-> "idea", priority |-> "medium", scope |-> Whole(25)],
      [category |-> "art", stage |-> "draft", priority |-> "low", scope |-> Whole(25)],
      [category |-> "web", stage |-> "active", priority |-> "medium", scope |-> Whole(49)] }

\* bound of the layout run: entities in a list
MaxLen == 3

\* the lists of at most MaxLen entities, the entity at index i having id i
EntityLists ==
    UNION { { [i \in 1..n |-> Project(i, k[i].category, k[i].stage,
                                       k[i].priority, k[i].scope)] :
                k \in [1..n -> EntityKinds] } : n \in 0..MaxLen }

LayInit ==
    /\ layIn \in EntityLists
    /\ layOut = NotPacked
    /\ layPermIn = <<>>
    /\ layPermOut = NotPacked

\* packDistricts(projects)
PackDistricts ==
    /\ ~layOut.done
    /\ layOut' = [done |-> TRUE, districts |-> packDistricts(layIn)]
    /\ UNCHANGED <<layIn, layPermIn, layPermOut>>
    /\ UNCHANGED <<sceneVars, hostVars>>

\* packDistricts on the same entities in another order
PackReordered(perm) ==
    /\ layOut.done /\ ~layPermOut.done
    /\ layPermIn' = [i \in 1..Len(layIn) |-> layIn[perm[i]]]
    /\ layPermOut' = [done |-> TRUE, districts |-> packDistricts(layPermIn')]
    /\ UNCHANGED <<layIn, layOut>>
    /\ UNCHANGED <<sceneVars, hostVars>>

\* lists with a district of more than one row: RowLen entities of one
\* district in every arrangement of the four priorities, followed by
\* entities of other stages and categories
RowLen == 5
RowPriorities == {"critical", "high", "medium", "low"}
RowTails ==
    { <<>>,
      <<[category |-> "art", stage |-> "paused", priority |-> "medium", scope |-> Whole(25)]>>,
      <<[category |-> "art", stage |-> "backlog", priority |-> "low", scope |-> Whole(36)],
        [category |-> "web", stage |-> "active", priority |-> "high", scope |-> Whole(49)]>>,
      <<[category |-> "art", stage |-> "paused", priority |-> "high", scope |-> Whole(25)],
        [category |-> "web", stage |-> "active", priority |-> "medium", scope |-> Whole(25)]>>,
      <<[category |-> "infra", stage |-> "complete", priority |-> "medium", scope |-> Whole(100)],
        [category |-> "web", stage |-> "backlog", priority |-> "critical", scope |-> Whole(25)]>> }
RowLists ==
    { [i \in 1..(RowLen + Len(tail)) |->
          IF i <= RowLen
          THEN Project(i, "art", "active", pr[i], Whole(25))
          ELSE Project(i, tail[i - RowLen].category, tail[i - RowLen].stage,
                       tail[i - RowLen].priority, tail[i - RowLen].scope)] :
          pr \in [1..RowLen -> RowPriorities], tail \in RowTails }

InitRows ==
    /\ SceneInit({StoredNone})
    /\ layIn \in RowLists
    /\ layOut = NotPacked
    /\ layPermIn = <<>>
    /\ layPermOut = NotPacked
NextRows == PackDistricts
SpecRows == InitRows /\ [][NextRows]_vars

NextLayout ==
    \/ PackDistricts
    \/ \E perm \in Permutations(1..Len(layIn)) : PackReordered(perm)

InitLayout == SceneInit({StoredNone}) /\ LayInit

SpecLayout == InitLayout /\ [][NextLayout]_vars

\* every event the scene can receive, with its inputs drawn from the given sets
NextWith(snapshots, readings, points) ==
    \/ \E projects \in snapshots : BuildCity(projects)
    \/ \E in \in MouseDownInputs(readings, points) :
          OnMouseDown(in[1], in[2], in[3], in[4], in[5])
    \/ \E point \in points : OnMouseMove(point)
    \/ OnMouseUp
    \/ OnKeyDown

\* A session that starts with no stored layout or with an earlier
\* arrangement, with pointer movement near the city.
\* sessions: drags far across the ground, explicit saves, and the view opened
\* again on what was saved
NextSession ==
    \/ NextWith({SnapshotArt}, {1000}, {Point(0, 0), Point(510 * U, 0)})
    \/ TriggerSave
    \/ NewSession

InitSession == InitWith({StoredNone})

SpecSession == InitSession /\ [][NextSession]_vars

\* drags in steps smaller than half a grid cell, of exactly half a cell, and
\* of more than a cell on one axis
DragPoints == { Point(0, 0), Point(2 * U, U), Point(4 * U, 2 * U),
                Point((5 * U) \div 2, -((5 * U) \div 2)), Point(7 * U, 2 * U) }

NextDrag == NextWith({SnapshotLess}, {1000}, DragPoints)

SpecDrag == InitSession /\ [][NextDrag]_vars

\* pointer-downs 0 to 600 ms apart
NextClick == NextWith({SnapshotArt}, {1000, 1300, 1400, 1500, 1900}, {Point(0, 0)})

SpecClick == InitSession /\ [][NextClick]_vars

\* sessions opened on each of the stored layouts, the pointer on one spot
InitLoad == InitWith({StoredNone, StoredEarlier, StoredCorrupt, StoredEdge, StoredMixed})
NextLoad == NextWith({SnapshotFull}, {1000}, {Point(0, 0)})
SpecLoad == InitLoad /\ [][NextLoad]_vars

\* entity drags of one grid cell in a district of three
TightPoints == {Point(0, 0), Point(0, -(5 * U))}
NextTight == NextWith({SnapshotClose}, {1000}, TightPoints)
SpecTight == InitSession /\ [][NextTight]_vars

\* lists of entities with and without a scope, of known and unknown priority
DefaultsLen == 2
DefaultScopes == {NoScope, Whole(1), Whole(25), Whole(100), Whole(400)}
DefaultPriorities == {"critical", "medium", "low", "urgent"}
DefaultLists ==
    { [i \in 1..DefaultsLen |-> Project(i, "art", "active", pr[i], sc[i])] :
          pr \in [1..DefaultsLen -> DefaultPriorities],
          sc \in [1..DefaultsLen -> DefaultScopes] }
InitDefaults ==
    /\ SceneInit({StoredNone})
    /\ layIn \in DefaultLists
    /\ layOut = NotPacked
    /\ layPermIn = <<>>
    /\ layPermOut = NotPacked
NextDefaults == PackDistricts
SpecDefaults == InitDefaults /\ [][NextDefaults]_vars

\* lists that fill districts side by side and one below the other with
\* entities of the smallest and of the largest size
PackLen == 5
PackKinds ==
    { [category |-> "art", stage |-> "active", scope |-> Whole(100)],
      [category |-> "art", stage |-> "active", scope |-> Whole(25)],
      [category |-> "art", stage |-> "paused", scope |-> Whole(100)],
      [category |-> "web", stage |-> "active", scope |-> Whole(100)] }
PackLists ==
    { [i \in 1..PackLen |->
          Project(i, k[i].category, k[i].stage, "medium", k[i].scope)] :
          k \in [1..PackLen -> PackKinds] }
InitPacked ==
    /\ SceneInit({StoredNone})
    /\ layIn \in PackLists
    /\ layOut = NotPacked
    /\ layPermIn = <<>>
    /\ layPermOut = NotPacked
NextPacked == PackDistricts
SpecPacked == InitPacked /\ [][NextPacked]_vars

\* a session opened on a stored list with an entry for a category that the
\* city does not have, with drags and explicit saves
InitSave == InitWith({StoredMixed, StoredEarlier})
NextSave ==
    \/ NextWith({SnapshotLess}, {1000}, {Point(0, 0), Point(7 * U, 2 * U)})
    \/ TriggerSave
SpecSave == InitSave /\ [][NextSave]_vars

\* the view: buildCity calls that await the parser, and the view closed
MaxRequests == 3

\* buildCity of the view up to its await: parseProjects is called and is to
\* deliver the entities as they are now
ViewBuildCity(projects) ==
    /\ requested < MaxRequests
    /\ requested' = requested + 1
    /\ pending' = pending \cup {[request |-> requested + 1, projects |-> projects]}
    /\ UNCHANGED <<sceneVars, stored, savedFrom, viewOpen, shownFrom, layVars>>

\* the parser delivers the snapshot of a call: of any call that awaits one
ParseProjectsDelivers(call) ==
    /\ call \in pending
    /\ pending' = pending \ {call}

\* buildCity of the view after its await: the snapshot is laid out and, if
\* the scene is still there, shown
ViewBuildCityResume(call) ==
    /\ ParseProjectsDelivers(call)
    /\ IF viewOpen
       THEN SceneBuildCity(call.projects) /\ shownFrom' = call.request
       ELSE UNCHANGED <<sceneVars, shownFrom>>
    /\ UNCHANGED <<stored, savedFrom, viewOpen, requested, layVars>>

\* onClose: the scene is disposed of and sceneManager set to null
OnClose ==
    /\ viewOpen
    /\ viewOpen' = FALSE
    /\ UNCHANGED <<sceneVars, stored, savedFrom, pending, requested, shownFrom,
                   layVars>>

InitView == InitWith({StoredNone})
NextView ==
    \/ \E projects \in Snapshots : ViewBuildCity(projects)
    \/ \E call \in pending : ViewBuildCityResume(call)
    \/ OnClose
SpecView == InitView /\ [][NextView]_vars

Init == InitWith({StoredNone})
Next == NextWith(Snapshots, {1000}, {Point(0, 0), Point(7 * U, 2 * U)})
Spec == Init /\ [][Next]_vars

(***************************************************************************)
(* Properties of the layout engine (under SpecLayout)                      *)
(***************************************************************************)
\* the district indices of a layout that hold the entity id
districtsHolding(districts, id) ==
    {n \in 1..Len(districts) :
        \E m \in 1..Len(districts[n].buildings) : districts[n].buildings[m].id = id}

\* C8: partition completeness. After packDistricts every input entity is a
\* member of exactly one district, once, and that district is the one of the
\* entity's category and stage; no district is empty, no two districts share
\* a key, and the member counts add up to the length of the input.
PartitionComplete ==
    layOut.done =>
        LET ds == layOut.districts
        IN /\ \A i \in 1..Len(layIn) :
                /\ Cardinality(districtsHolding(ds, layIn[i].id)) = 1
                /\ \A n \in districtsHolding(ds, layIn[i].id) :
                       /\ ds[n].key = districtKey(layIn[i])
                       /\ ds[n].category = layIn[i].category
                       /\ ds[n].stage = layIn[i].stage
                       /\ Cardinality({m \in 1..Len(ds[n].buildings) :
                                          ds[n].buildings[m].id = layIn[i].id}) = 1
           /\ \A n \in 1..Len(ds) : Len(ds[n].buildings) > 0
           /\ \A n, k \in 1..Len(ds) : ds[n].key = ds[k].key => n = k
           /\ Len(laidOut(ds)) = Len(layIn)

\* a layout of several districts, one of them with several members
PartitionWitness ==
    /\ layOut.done
    /\ Len(layOut.districts) >= 2
    /\ \E n \in 1..Len(layOut.districts) : Len(layOut.districts[n].buildings) >= 2

\* what a layout gives each entity and each district
entityPlacement(districts) ==
    {[id |-> b.id, position |-> b.position, dimensions |-> b.dimensions] :
        b \in {laidOut(districts)[i] : i \in 1..Len(laidOut(districts))}}
districtPlacement(districts) ==
    {[key |-> districts[n].key, bounds |-> districts[n].bounds] :
        n \in 1..Len(districts)}
SameLayout(a, b) ==
    /\ entityPlacement(a) = entityPlacement(b)
    /\ districtPlacement(a) = districtPlacement(b)

\* the layout of every reordering of the input equals the layout of the input
OrderIndependent ==
    (layOut.done /\ layPermOut.done) =>
        SameLayout(layOut.districts, layPermOut.districts)

\* two entities the engine orders by their place in the input alone: members
\* of one district with the same priority rank, or members of two districts
\* of one category whose stages have the same index in the stage list
orderedByInput(p, q) ==
    \/ /\ districtKey(p) = districtKey(q)
       /\ priorityOrder(p.priority) = priorityOrder(q.priority)
    \/ /\ districtKey(p) # districtKey(q)
       /\ p.category = q.category
       /\ stageIndexOf(p.stage) = stageIndexOf(q.stage)

indexOfId(seq, id) == CHOOSE i \in 1..Len(seq) : seq[i].id = id

\* the reordering keeps the relative order of every such pair
KeepsTieOrder ==
    \A i, j \in 1..Len(layIn) :
        (i < j /\ orderedByInput(layIn[i], layIn[j])) =>
            indexOfId(layPermIn, layIn[i].id) < indexOfId(layPermIn, layIn[j].id)

\* C7: the layout is deterministic, and independent of the input order for
\* every reordering that keeps the relative order of the entities that tie
\* (same district and priority rank, or same category and stage index):
\* the same positions, dimensions and district bounds result.
OrderIndependentUpToTies ==
    (layOut.done /\ layPermOut.done /\ KeepsTieOrder) =>
        SameLayout(layOut.districts, layPermOut.districts)

\* a real reordering of three entities that keeps the tie order and moves a
\* higher priority across a lower one
ReorderedWitness ==
    /\ layOut.done /\ layPermOut.done
    /\ KeepsTieOrder
    /\ Len(layIn) = 3
    /\ layPermIn # layIn
    /\ \E i, j \in 1..Len(layIn) :
          /\ districtKey(layIn[i]) = districtKey(layIn[j])
          /\ priorityOrder(layIn[i].priority) # priorityOrder(layIn[j].priority)
          /\ (i < j) # (indexOfId(layPermIn, layIn[i].id)
                          < indexOfId(layPermIn, layIn[j].id))

(***************************************************************************)
(* Properties of rebuilds and drags (under Spec)                           *)
(***************************************************************************)
\* a district drag or an entity drag is in progress
DragInProgress ==
    isDragging /\ (draggedBlock # NoBlock \/ movingBuilding # NoMesh)

\* the controller is Idle: no drag, no dragged district, no dragged entity,
\* the accumulator discarded
Idle ==
    /\ ~isDragging
    /\ draggedBlock = NoBlock
    /\ movingBuilding = NoMesh
    /\ dragAccumulator = ZeroAcc

\* C1: a rebuild is atomic with respect to the interaction state. Rebuilds
\* are not deferred (buildCity runs when it is called), so every rebuild
\* delivered while a drag is in progress must leave the controller Idle.
RebuildAtomic ==
    [][\A projects \in Snapshots :
          (DragInProgress /\ BuildCity(projects)) => Idle']_vars

\* the drag in progress has lost its target to a rebuild: the dragged entity's
\* mesh was replaced, or the dragged district's category has no entities
TargetVanished ==
    /\ isDragging
    /\ IF movingBuilding # NoMesh
       THEN movingBuilding.stale
       ELSE /\ draggedBlock # NoBlock
            /\ draggedBlock.stale
            /\ draggedBlock.category \notin DOMAIN blocks

\* C2: once a rebuild has removed the drag target, the drag applies nothing:
\* no pointer-move changes a position, a bounds or an offset, and the
\* pointer-up that ends the drag commits nothing.
VanishedTargetInert ==
    [][(TargetVanished /\ (moves' # moves \/ ~isDragging')) =>
          /\ buildings' = buildings
          /\ blocks' = blocks
          /\ blockOffsets' = blockOffsets
          /\ savedPositions' = savedPositions]_vars

(***************************************************************************)
(* Properties of the offsets across rebuilds and sessions (under           *)
(* SpecSession)                                                            *)
(***************************************************************************)
\* the entity list a city was built from
inputOf(bs) ==
    [i \in 1..Len(bs) |->
        Project(bs[i].id, bs[i].category, bs[i].stage, bs[i].priority, bs[i].scope)]

positionsOf(bs) == [i \in 1..Len(bs) |-> bs[i].position]

\* no drag is in progress and the cumulative offset of every district is the
\* one committed for its key
DragsCommitted ==
    /\ ~isDragging
    /\ \A c \in DOMAIN blocks :
          getOffset(blockOffsets, c) = getOffset(savedPositions, c)

\* C3: the results of district drags survive rebuilds. In a session with
\* district drags only, once the drags have ended with pointer-up, a rebuild
\* on the same entities leaves every entity and every district bounds where
\* it was immediately before the rebuild.
DistrictDragsSurvive ==
    [][\A projects \in {SnapshotArt} :
          (/\ ~entityDragged
           /\ DragsCommitted
           /\ inputOf(buildings) = projects
           /\ BuildCity(projects))
          => (positionsOf(buildings') = positionsOf(buildings) /\ blocks' = blocks)]_vars

\* C4: offset round trip. The first rebuild of a session opened on a saved
\* list, with the entities the city had at the save, puts every entity at
\* the position it had when the list was saved.
OffsetRoundTrip ==
    [][\A projects \in {SnapshotArt} :
          (/\ buildings = <<>>
           /\ savedFrom # <<>>
           /\ inputOf(savedFrom) = projects
           /\ BuildCity(projects))
          => positionsOf(buildings') = positionsOf(savedFrom)]_vars

(***************************************************************************)
(* Properties of bounds and grid (under Spec)                              *)
(***************************************************************************)
\* the city of the current entities before any offset
freshCity == baseCities[inputOf(buildings)]

\* the layout of the current entities as packDistricts returns it
freshLayouts == [projects \in AllSnapshots |-> packDistricts(projects)]

shiftBounds(b, offset) ==
    [minX |-> b.minX + offset.offsetX, maxX |-> b.maxX + offset.offsetX,
     minZ |-> b.minZ + offset.offsetZ, maxZ |-> b.maxZ + offset.offsetZ]

\* the fixed padding of the outline
outlinePadding == 3 * U

\* the tight box of the members' footprints plus the padding, snapped
paddedBounds(bs, category) ==
    LET nb == tightBounds(bs, category)
    IN [minX |-> snapToGrid(nb.minX - outlinePadding),
        maxX |-> snapToGrid(nb.maxX + outlinePadding),
        minZ |-> snapToGrid(nb.minZ - outlinePadding),
        maxZ |-> snapToGrid(nb.maxZ + outlinePadding)]

isMultiple(value, unit) == value % unit = 0

offsetsOnGrid(offsets) ==
    \A c \in DOMAIN offsets :
        isMultiple(offsets[c].offsetX, gridSize) /\ isMultiple(offsets[c].offsetZ, gridSize)

AccumulatorCorrect ==
    /\ dragApplied.x + dragAccumulator.x = dragRaw.x
    /\ dragApplied.y + dragAccumulator.y = dragRaw.y
    /\ Abs(dragApplied.x - MathRound(dragRaw.x, gridSize) * gridSize) <= gridSize
    /\ Abs(dragApplied.y - MathRound(dragRaw.y, gridSize) * gridSize) <= gridSize

\* two pointer-moves of 2 units each, neither enough to move anything alone,
\* have moved the target by one grid cell
AccumulatorWitness ==
    /\ isDragging
    /\ moves = 2
    /\ dragRaw.x = 4 * U
    /\ dragApplied.x = gridSize
    /\ dragAccumulator.x = -U
    /\ dragStartPoint = Point(4 * U, 2 * U) \/ buildingDragStart = Point(4 * U, 2 * U)

\* C10: double-click threshold. A left pointer-down on an entity whose mesh
\* took the previous entity click arms move mode on that entity when it comes
\* less than 400 ms after that click, and arms nothing when it comes 400 ms
\* or more after it.
DoubleClickThreshold ==
    [][\A at \in {1000, 1300, 1400, 1500, 1900} :
       \A buildingHit \in 1..Len(buildings) :
       \A handleHit \in DOMAIN blocks \cup {"none"} :
          (/\ movingBuilding = NoMesh
           /\ lastClickedBuilding = meshOf(buildings, buildingHit)
           /\ OnMouseDown(at, Origin, buildingHit, handleHit, FALSE))
          => /\ at - lastClickTime < 400
                  => movingBuilding' = meshOf(buildings, buildingHit)
             /\ at - lastClickTime >= 400 => movingBuilding' = NoMesh]_vars

\* an entity armed by a second pointer-down
DoubleClickWitness ==
    /\ movingBuilding # NoMesh
    /\ ~movingBuilding.stale
    /\ lastClickTime = 0
    /\ lastClickedBuilding = NoMesh

\* C11: double-click detection is per entity. A pointer-down on an entity
\* whose mesh is not the one that took the previous entity click arms
\* nothing however short the interval, and makes that entity the candidate
\* from the time of this click; and move mode is armed only on the entity
\* that took both of the last two pointer-downs on an entity.
ClickPerEntity ==
    [][/\ \A at \in {1000, 1300, 1400, 1500, 1900} :
          \A buildingHit \in 1..Len(buildings) :
          \A handleHit \in DOMAIN blocks \cup {"none"} :
             (/\ movingBuilding = NoMesh
              /\ lastClickedBuilding # NoMesh
              /\ lastClickedBuilding # meshOf(buildings, buildingHit)
              /\ OnMouseDown(at, Origin, buildingHit, handleHit, FALSE))
             => /\ movingBuilding' = NoMesh
                /\ lastClickedBuilding' = meshOf(buildings, buildingHit)
                /\ lastClickTime' = at
       /\ (movingBuilding = NoMesh /\ movingBuilding' # NoMesh)
             => lastEntityClicks' = <<movingBuilding'.id, movingBuilding'.id>>]_vars

\* entity 2 clicked in the same millisecond as entity 1 before it: nothing
\* is armed and entity 2 is the candidate
ClickPerEntityWitness ==
    /\ lastEntityClicks = <<1, 2>>
    /\ movingBuilding = NoMesh
    /\ lastClickedBuilding = [id |-> 2, category |-> "art", stale |-> FALSE]
    /\ lastClickTime = 1000

(***************************************************************************)
(* Properties of loaded offsets (under SpecLoad)                           *)
(***************************************************************************)
exceedsBound(offset) ==
    Abs(offset.offsetX) > 500 * U \/ Abs(offset.offsetZ) > 500 * U

\* the positions of the buildings of a category
positionsIn(bs, c) ==
    [i \in {k \in 1..Len(bs) : bs[k].category = c} |-> bs[i].position]

\* C12: sanity bound. After every rebuild, a district whose held offset
\* exceeds 500 on either axis has its entities and bounds where the layout
\* puts them and no cumulative offset; a district whose held offset is at
\* most 500 on both axes has entities and bounds displaced by exactly that
\* offset, which is its cumulative offset.
SanityBound ==
    [][\A projects \in {SnapshotFull} : BuildCity(projects) =>
          \A c \in DOMAIN savedPositions \cap DOMAIN blocks' :
             LET base == baseCities[projects]
                 held == savedPositions[c]
             IN IF exceedsBound(held)
                THEN /\ positionsIn(buildings', c) = positionsIn(base.buildings, c)
                     /\ blocks'[c] = base.blocks[c]
                     /\ c \notin DOMAIN blockOffsets'
                ELSE /\ \A i \in DOMAIN positionsIn(buildings', c) :
                          /\ buildings'[i].position.x
                                = base.buildings[i].position.x + held.offsetX
                          /\ buildings'[i].position.z
                                = base.buildings[i].position.z + held.offsetZ
                     /\ blocks'[c] = shiftBounds(base.blocks[c], held)
                     /\ getOffset(blockOffsets', c) = held]_vars

\* a city built on a list with an offset past the bound for one district and
\* a sound one for another: the first at its default place, the second moved
SanityBoundWitness ==
    /\ stored = StoredMixed
    /\ buildings # <<>>
    /\ positionsIn(buildings, "art") = positionsIn(freshCity.buildings, "art")
    /\ "art" \notin DOMAIN blockOffsets
    /\ blockOffsets["web"] = Offset(gridSize, 0)
    /\ blocks["web"] = shiftBounds(freshCity.blocks["web"], Offset(gridSize, 0))

(***************************************************************************)
(* Properties of the pan suspension and of the save path                   *)
(***************************************************************************)
\* C13: pan suspension follows the drag session. Camera panning is enabled
\* in every state in which no district drag and no entity drag is in
\* progress, whatever pointer, Escape and rebuild events came before.
PanFollowsDrag == ~DragInProgress => controlsEnabled

\* C14: explicit save is the only path to durable storage. Every step that
\* hands a layout to onSaveLayout is a triggerSave; and the pointer-up that
\* ends a district drag changes the offset held in memory only: not the
\* stored list, and no position, bounds or cumulative offset.
SaveOnlyExplicit ==
    [][/\ (stored' # stored \/ savedFrom' # savedFrom) => TriggerSave
       /\ (OnMouseUp /\ draggedBlock # NoBlock)
             => /\ stored' = stored
                /\ buildings' = buildings
                /\ blocks' = blocks
                /\ blockOffsets' = blockOffsets]_vars

\* a district drag has ended and its offset is held in memory, with nothing
\* stored
SaveOnlyExplicitWitness ==
    /\ ~isDragging
    /\ buildings # <<>>
    /\ "art" \in DOMAIN savedPositions
    /\ savedPositions["art"] # Offset(0, 0)
    /\ savedPositions["art"] = blockOffsets["art"]
    /\ stored = StoredNone
    /\ savedFrom = <<>>

(***************************************************************************)
(* Properties of the district drag (under Spec)                            *)
(***************************************************************************)
\* a pointer-move of a district drag that applies a nonzero snapped delta
\* applies it to every member of the dragged district, to its bounds and to
\* its cumulative offset, and to nothing else
DeltaToDistrictOnly ==
    \A point \in {Point(0, 0), Point(7 * U, 2 * U)} :
       (MoveBlockDrag(point) /\ dragApplied' # dragApplied) =>
          LET c == draggedBlock.category
              dx == dragApplied'.x - dragApplied.x
              dz == dragApplied'.y - dragApplied.y
          IN /\ Len(buildings') = Len(buildings)
             /\ \A i \in 1..Len(buildings) :
                   buildings'[i] =
                      IF buildings[i].category = c
                      THEN [buildings[i] EXCEPT !.position.x = @ + dx,
                                                !.position.z = @ + dz]
                      ELSE buildings[i]
             /\ DOMAIN blocks' = DOMAIN blocks
             /\ \A k \in DOMAIN blocks :
                   blocks'[k] = IF k = c THEN shiftBounds(blocks[k], Offset(dx, dz))
                                ELSE blocks[k]
             /\ DOMAIN blockOffsets' = DOMAIN blockOffsets \cup {c}
             /\ \A k \in DOMAIN blockOffsets' :
                   blockOffsets'[k] =
                      IF k = c
                      THEN Offset(getOffset(blockOffsets, c).offsetX + dx,
                                  getOffset(blockOffsets, c).offsetZ + dz)
                      ELSE blockOffsets[k]
             /\ savedPositions' = savedPositions

\* the entity at index i is displaced from its fresh position by the
\* cumulative offset of its district
displacedByOffset(i) ==
    LET offset == getOffset(blockOffsets, buildings[i].category)
    IN /\ buildings[i].position.x
             = freshCity.buildings[i].position.x + offset.offsetX
       /\ buildings[i].position.z
             = freshCity.buildings[i].position.z + offset.offsetZ

\* every district drag delta goes to the district alone, and in every state
\* every entity and every bounds is displaced by the cumulative offset
DistrictDeltaEverywhere ==
    /\ [][DeltaToDistrictOnly]_vars
    /\ [](/\ \A i \in 1..Len(buildings) : displacedByOffset(i)
          /\ \A c \in DOMAIN blocks :
                blocks[c] = shiftBounds(freshCity.blocks[c], getOffset(blockOffsets, c)))

\* C15: every nonzero snapped delta of a district drag is applied to every
\* member of the dragged district, to its bounds and to its cumulative
\* offset, and to nothing else; so in every state every entity that no
\* entity drag has moved since the last rebuild is displaced from its fresh
\* position by the cumulative offset of its district (zero when absent),
\* and the bounds are displaced by it until they are recomputed as the
\* tight box of the members.
DistrictDeltaUnlessMovedAlone ==
    /\ [][DeltaToDistrictOnly]_vars
    /\ [](/\ \A i \in 1..Len(buildings) :
                buildings[i].id \notin movedAlone => displacedByOffset(i)
          /\ \A c \in DOMAIN blocks :
                \/ blocks[c] = shiftBounds(freshCity.blocks[c],
                                           getOffset(blockOffsets, c))
                \/ blocks[c] = tightBounds(buildings, c))

\* a district of two, dragged as a whole after one of its members was moved
\* on its own, next to a district that was not dragged
DistrictDeltaWitness ==
    /\ isDragging /\ draggedBlock = [category |-> "art", stale |-> FALSE]
    /\ dragApplied # ZeroAcc
    /\ movedAlone = {1}
    /\ Len(buildings) = 3
    /\ getOffset(blockOffsets, "art") # Offset(0, 0)
    /\ getOffset(blockOffsets, "web") = Offset(0, 0)

(***************************************************************************)
(* Properties of the snap step (under SpecDrag)                            *)
(***************************************************************************)
\* Math.round(value / 5) * 5 written out: the multiple of the grid size
\* nearest to the value, the upper one when two are equally near
nearestCell(value) ==
    CHOOSE m \in {k * gridSize : k \in -40..40} :
        /\ 2 * (value - m) < gridSize
        /\ 2 * (m - value) <= gridSize

\* C16: snap step. Each pointer-move of a drag adds the raw movement since
\* the previous pointer event to the accumulator, applies on each axis the
\* multiple of GridSize nearest to the accumulator and subtracts it; so
\* after every pointer-move each accumulator axis is at most GridSize/2 in
\* magnitude and the applied deltas plus the accumulator are the raw
\* movement since the drag started. A raw movement of (7, 2) in one
\* pointer-move commits (5, 0) and leaves (2, 2).
SnapStep ==
    /\ [][moves' # moves =>
             LET accX == dragAccumulator.x + (dragRaw'.x - dragRaw.x)
                 accY == dragAccumulator.y + (dragRaw'.y - dragRaw.y)
             IN /\ dragApplied'.x - dragApplied.x = nearestCell(accX)
                /\ dragApplied'.y - dragApplied.y = nearestCell(accY)
                /\ dragAccumulator'.x = accX - nearestCell(accX)
                /\ dragAccumulator'.y = accY - nearestCell(accY)
                /\ (dragRaw = ZeroAcc /\ dragRaw' = [x |-> 7 * U, y |-> 2 * U])
                      => /\ dragApplied' = [x |-> 5 * U, y |-> 0]
                         /\ dragAccumulator' = [x |-> 2 * U, y |-> 2 * U]]_vars
    /\ [](/\ 2 * Abs(dragAccumulator.x) <= 5 * U
          /\ 2 * Abs(dragAccumulator.y) <= 5 * U
          /\ dragApplied.x + dragAccumulator.x = dragRaw.x
          /\ dragApplied.y + dragAccumulator.y = dragRaw.y)

\* the first pointer-move of a drag was of (7, 2): (5, 0) is applied,
\* (2, 2) is left
SnapStepWitness ==
    /\ isDragging
    /\ dragRaw = [x |-> 7 * U, y |-> 2 * U]
    /\ dragApplied = [x |-> 5 * U, y |-> 0]
    /\ dragAccumulator = [x |-> 2 * U, y |-> 2 * U]
    /\ dragStartPoint = Point(7 * U, 2 * U) \/ buildingDragStart = Point(7 * U, 2 * U)

(***************************************************************************)
(* Properties of the placement within and among districts (under SpecRows) *)
(***************************************************************************)
\* the place of a priority in critical, high, medium, low
priorityPlace(priority) ==
    CHOOSE k \in 1..4 : <<"critical", "high", "medium", "low">>[k] = priority

\* C17: within a district the members are ordered by priority critical,
\* high, medium, low with ties in input order, and the member at sorted
\* index i is in row floor(i/4), column i mod 4: members of one column share
\* x, members of one row share z, a later column has a greater x and a later
\* row a greater z, and every coordinate is a multiple of 5. For the
\* priorities critical, high, medium, medium, low the first four fill row 0
\* in that order and the low entity is in row 1, column 0.
RowMajorByPriority ==
    layOut.done =>
        /\ \A n \in 1..Len(layOut.districts) :
              LET m == layOut.districts[n].buildings
                  row(i) == (i - 1) \div 4
                  col(i) == (i - 1) % 4
              IN \A i, j \in 1..Len(m) :
                    /\ i < j =>
                          \/ priorityPlace(m[i].priority) < priorityPlace(m[j].priority)
                          \/ /\ priorityPlace(m[i].priority) = priorityPlace(m[j].priority)
                             /\ m[i].id < m[j].id
                    /\ (col(i) = col(j)) = (m[i].position.x = m[j].position.x)
                    /\ (row(i) = row(j)) = (m[i].position.z = m[j].position.z)
                    /\ col(i) < col(j) => m[i].position.x < m[j].position.x
                    /\ row(i) < row(j) => m[i].position.z < m[j].position.z
                    /\ isMultiple(m[i].position.x, 5 * U)
                    /\ isMultiple(m[i].position.z, 5 * U)
        /\ (/\ [k \in 1..5 |-> layIn[k].priority]
                  = <<"critical", "high", "medium", "medium", "low">>
            /\ \A k \in 1..Len(layIn) :
                  (layIn[k].category = "art" /\ layIn[k].stage = "active") = (k <= 5))
           => LET m == layOut.districts[
                         CHOOSE n \in 1..Len(layOut.districts) :
                             layOut.districts[n].key = "active_art"].buildings
              IN /\ [k \in 1..5 |-> m[k].id] = <<1, 2, 3, 4, 5>>
                 /\ m[5].position.x = m[1].position.x
                 /\ m[5].position.z > m[1].position.z
                 /\ \A k \in 2..4 : /\ m[k].position.z = m[1].position.z
                                     /\ m[k].position.x > m[k - 1].position.x

\* five entities given as low, medium, critical, medium, high: the district
\* holds them as 3, 5, 2, 4 in row 0 and 1 in row 1
RowMajorWitness ==
    /\ layOut.done
    /\ Len(layIn) = 5
    /\ [k \in 1..5 |-> layIn[k].priority]
          = <<"low", "medium", "critical", "medium", "high">>
    /\ [k \in 1..5 |-> layOut.districts[1].buildings[k].id] = <<3, 5, 2, 4, 1>>
    /\ layOut.districts[1].buildings[5].position.z
          > layOut.districts[1].buildings[1].position.z

\* the place of a stage in backlog, active, paused, complete
stagePlace(stage) ==
    CHOOSE k \in 1..4 : <<"backlog", "active", "paused", "complete">>[k] = stage

freshDistricts == [projects \in AllSnapshots |-> baseDistricts(projects)]

\* the offset a rebuild applies to a category
appliedOffset(c) ==
    IF c \in DOMAIN savedPositions /\ ~exceedsBound(savedPositions[c])
    THEN savedPositions[c] ELSE Offset(0, 0)

\* after every rebuild the only member of a district (stage and category) is
\* at the centre of the district's rectangle, displaced by the offset applied
SingleInDistrictCentred ==
    [][\A projects \in {SnapshotFull} : BuildCity(projects) =>
          \A n \in 1..Len(freshDistricts[projects]) :
             LET d == freshDistricts[projects][n]
                 offset == appliedOffset(d.category)
             IN Len(d.buildings) = 1 =>
                   \A i \in 1..Len(buildings') :
                      buildings'[i].id = d.buildings[1].id =>
                         /\ 2 * (buildings'[i].position.x - offset.offsetX)
                               = 2 * d.bounds.x + d.bounds.width
                         /\ 2 * (buildings'[i].position.z - offset.offsetZ)
                               = 2 * d.bounds.z + d.bounds.depth]_vars

\* C20: after every rebuild, the only entity of a category is at the centre
\* of the rectangle the layout gave its district and at the centre of its
\* block's bounds, before the stored offset is applied and after.
SingleInCategoryCentred ==
    [][\A projects \in {SnapshotFull} : BuildCity(projects) =>
          \A c \in DOMAIN blocks' :
             LET of == {i \in 1..Len(buildings') : buildings'[i].category = c}
                 base == baseCities[projects]
                 offset == appliedOffset(c)
             IN Cardinality(of) = 1 =>
                   \A i \in of :
                      /\ 2 * buildings'[i].position.x = blocks'[c].minX + blocks'[c].maxX
                      /\ 2 * buildings'[i].position.z = blocks'[c].minZ + blocks'[c].maxZ
                      /\ 2 * base.buildings[i].position.x
                            = base.blocks[c].minX + base.blocks[c].maxX
                      /\ 2 * base.buildings[i].position.z
                            = base.blocks[c].minZ + base.blocks[c].maxZ
                      /\ buildings'[i].position.x
                            = base.buildings[i].position.x + offset.offsetX
                      /\ buildings'[i].position.z
                            = base.buildings[i].position.z + offset.offsetZ
                      /\ \A n \in 1..Len(freshDistricts[projects]) :
                            LET d == freshDistricts[projects][n]
                            IN d.category = c =>
                                  /\ 2 * base.buildings[i].position.x
                                        = 2 * d.bounds.x + d.bounds.width
                                  /\ 2 * base.buildings[i].position.z
                                        = 2 * d.bounds.z + d.bounds.depth]_vars

\* the city of three entities built on a stored offset for the category of
\* one: its entity is at the centre of the displaced bounds, off the grid
\* slot the layout gave it
SingleCentredWitness ==
    /\ Len(buildings) = 3
    /\ stored = StoredMixed
    /\ moves = 0
    /\ blockOffsets["web"] = Offset(gridSize, 0)
    /\ 2 * buildings[3].position.x = blocks["web"].minX + blocks["web"].maxX
    /\ 2 * buildings[3].position.z = blocks["web"].minZ + blocks["web"].maxZ
    /\ positioned(inputOf(buildings), freshLayouts[inputOf(buildings)])[3].position.x
          # freshDistricts[inputOf(buildings)][3].bounds.x
              + freshDistricts[inputOf(buildings)][3].bounds.width \div 2

(***************************************************************************)
(* Properties of the bounds under entity drags (under SpecTight)           *)
(***************************************************************************)
\* the bounds b are within the tolerance 0.01 of the bounds t on every edge
withinTolerance(b, t) ==
    /\ 100 * Abs(b.minX - t.minX) < U /\ 100 * Abs(b.maxX - t.maxX) < U
    /\ 100 * Abs(b.minZ - t.minZ) < U /\ 100 * Abs(b.maxZ - t.maxZ) < U

LayoutTotal ==
    layOut.done =>
        \A n \in 1..Len(layOut.districts) :
            LET m == layOut.districts[n].buildings
            IN \A i \in 1..Len(m) :
                  /\ isMultiple(m[i].position.x, 5 * U)
                  /\ isMultiple(m[i].position.z, 5 * U)
                  /\ m[i].dimensions.width # NaN
                  /\ m[i].dimensions.depth # NaN
                  /\ m[i].scope = NoScope => m[i].dimensions.width = 2 * U
                  /\ m[i].dimensions.height > 0
                  /\ \A j \in 1..Len(m) :
                        (i < j /\ m[i].priority = "urgent")
                        => m[j].priority # "critical"
                           /\ (m[j].priority = "medium" => m[i].id < m[j].id)

(***************************************************************************)
(* Properties of move mode (under Spec)                                    *)
(***************************************************************************)
\* ArmedForMove: an entity is armed and no drag is on
ArmedForMove == movingBuilding # NoMesh /\ ~isDragging

\* no drag is on, no district is dragged, no entity is armed
NothingHeld == ~isDragging /\ draggedBlock = NoBlock /\ movingBuilding = NoMesh

\* a pointer-down of the current state that misses the armed entity
PointerDownElsewhere ==
    \E in \in MouseDownInputs({1000}, {Point(0, 0), Point(7 * U, 2 * U)}) :
        ~in[5] /\ OnMouseDown(in[1], in[2], in[3], in[4], in[5])

\* C22: in ArmedForMove a pointer-down that misses the armed entity, and an
\* Escape, leave the controller with nothing held; the cancellation changes
\* no position, no bounds and no offset, and the pointer-down starts no drag,
\* arms nothing and is not counted as a click on an entity.
CancelArmed ==
    [][(ArmedForMove /\ (OnKeyDown \/ PointerDownElsewhere))
          => /\ NothingHeld'
             /\ buildings' = buildings
             /\ blocks' = blocks
             /\ blockOffsets' = blockOffsets
             /\ savedPositions' = savedPositions
             /\ lastClickedBuilding' = lastClickedBuilding
             /\ lastClickTime' = lastClickTime]_vars

\* entity 1 was armed by a double-click and a pointer-down on entity 2 has
\* cancelled that: nothing is held and the click on 2 was not recorded
CancelArmedWitness ==
    /\ NothingHeld
    /\ lastEntityClicks = <<1, 2>>
    /\ lastClickedBuilding = NoMesh
    /\ lastClickTime = 0
    /\ controlsEnabled

\* DraggingEntity: a drag is on with an entity armed
DraggingEntity == isDragging /\ movingBuilding # NoMesh

\* a pointer-down of the current state that hits the armed entity
PointerDownOnArmed ==
    \E in \in MouseDownInputs({1000}, {Point(0, 0), Point(7 * U, 2 * U)}) :
        in[5] /\ OnMouseDown(in[1], in[2], in[3], in[4], in[5])

\* C23: in ArmedForMove a pointer-down on the armed entity starts
\* DraggingEntity with the accumulator zeroed, and the pointer-up that ends
\* DraggingEntity leaves ArmedForMove with the same entity armed, so that
\* the next pointer-down on it starts a drag again.
EntityDragCycle ==
    [][/\ (ArmedForMove /\ PointerDownOnArmed)
           => /\ DraggingEntity'
              /\ movingBuilding' = movingBuilding
              /\ dragAccumulator' = ZeroAcc
       /\ (DraggingEntity /\ OnMouseUp)
           => /\ ArmedForMove'
              /\ movingBuilding' = movingBuilding]_vars

\* a second drag of entity 1 has started after a first one moved it, with
\* no click recorded since the double-click that armed it
EntityDragCycleWitness ==
    /\ DraggingEntity
    /\ ~movingBuilding.stale /\ movingBuilding.id = 1
    /\ movedAlone = {1}
    /\ dragRaw = ZeroAcc /\ dragApplied = ZeroAcc /\ dragAccumulator = ZeroAcc
    /\ lastEntityClicks = <<1, 1>>
    /\ lastClickedBuilding = NoMesh /\ lastClickTime = 0

\* C24: Escape during DraggingEntity leaves the controller Idle: nothing is
\* armed, no drag is on (isDragging is cleared), and the deltas snapped
\* before the Escape stay applied.
EscapeEndsDrag ==
    [][(DraggingEntity /\ OnKeyDown)
          => /\ NothingHeld'
             /\ buildings' = buildings
             /\ blocks' = blocks
             /\ blockOffsets' = blockOffsets]_vars

(***************************************************************************)
(* Properties of the computed layout (under SpecPacked)                    *)
(***************************************************************************)
\* the intervals [a1, a2] and [b1, b2] share more than an end point
intervalsOverlap(a1, a2, b1, b2) == a1 < b2 /\ b1 < a2

\* the footprints of two laid-out entities overlap
footprintsOverlap(p, q) ==
    /\ intervalsOverlap(2 * p.position.x - p.dimensions.width,
                        2 * p.position.x + p.dimensions.width,
                        2 * q.position.x - q.dimensions.width,
                        2 * q.position.x + q.dimensions.width)
    /\ intervalsOverlap(2 * p.position.z - p.dimensions.depth,
                        2 * p.position.z + p.dimensions.depth,
                        2 * q.position.z - q.dimensions.depth,
                        2 * q.position.z + q.dimensions.depth)

\* the bounds rectangles of two districts overlap
districtsOverlap(d, e) ==
    /\ intervalsOverlap(d.bounds.x, d.bounds.x + d.bounds.width,
                        e.bounds.x, e.bounds.x + e.bounds.width)
    /\ intervalsOverlap(d.bounds.z, d.bounds.z + d.bounds.depth,
                        e.bounds.z, e.bounds.z + e.bounds.depth)

\* C25: right after the layout no two distinct entities have overlapping
\* footprints and no two distinct districts have overlapping bounds.
NonOverlap ==
    layOut.done =>
        LET all == laidOut(layOut.districts)
        IN /\ Len(all) = Len(layIn)
           /\ \A i, j \in 1..Len(all) :
                 i # j => ~footprintsOverlap(all[i], all[j])
           /\ \A m, n \in 1..Len(layOut.districts) :
                 m # n => ~districtsOverlap(layOut.districts[m], layOut.districts[n])

\* four entities of the largest size fill a row of one district, a district
\* of another stage lies beside it: neighbours in the row are 5 apart and 4
\* wide
NonOverlapWitness ==
    /\ layOut.done
    /\ Len(layOut.districts) = 2
    /\ Len(layOut.districts[1].buildings) = 4
    /\ \A i \in 1..4 : layOut.districts[1].buildings[i].dimensions.width = 4 * U
    /\ layOut.districts[1].buildings[2].position.x
          - layOut.districts[1].buildings[1].position.x = 5 * U
    /\ layOut.districts[2].bounds.z = layOut.districts[1].bounds.z

(***************************************************************************)
(* Properties of the drag targets (under Spec)                             *)
(***************************************************************************)
\* C26: the dragged district and the armed or dragged entity are never both
\* set, and while isDragging is true exactly one of them is set.
OneDragTarget ==
    /\ ~(draggedBlock # NoBlock /\ movingBuilding # NoMesh)
    /\ isDragging => (draggedBlock # NoBlock) # (movingBuilding # NoMesh)

(***************************************************************************)
(* Properties of the committed offsets (under SpecSession)                 *)
(***************************************************************************)
\* C27: the cumulative offset that the pointer-up of a district drag puts
\* into savedPositions is within the sanity bound of 500 on both axes.
CommittedWithinBound ==
    [][(/\ OnMouseUp
        /\ draggedBlock # NoBlock
        /\ draggedBlock.category \in DOMAIN blockOffsets)
          => /\ draggedBlock.category \in DOMAIN savedPositions'
             /\ ~exceedsBound(savedPositions'[draggedBlock.category])]_vars

(***************************************************************************)
(* Properties of the frame of an entity drag (under Spec)                  *)
(***************************************************************************)
\* a pointer-move or the pointer-up of an entity drag
EntityDragStep ==
    /\ DraggingEntity
    /\ \/ \E point \in {Point(0, 0), Point(7 * U, 2 * U)} : OnMouseMove(point)
       \/ OnMouseUp

\* C28: a pointer-move or pointer-up of an entity drag changes nothing but
\* the position of the dragged entity and the bounds of its district: every
\* other entity, the bounds of every other district, the cumulative offsets
\* and the saved offsets are as before.
EntityDragFrame ==
    [][EntityDragStep
          => /\ Len(buildings') = Len(buildings)
             /\ \A i \in 1..Len(buildings) :
                   buildings[i].id # movingBuilding.id => buildings'[i] = buildings[i]
             /\ DOMAIN blocks' = DOMAIN blocks
             /\ \A c \in DOMAIN blocks :
                   c # movingBuilding.category => blocks'[c] = blocks[c]
             /\ blockOffsets' = blockOffsets
             /\ savedPositions' = savedPositions]_vars

(***************************************************************************)
(* Properties of the saved list (under SpecSave)                           *)
(***************************************************************************)
\* C29: an explicit save emits exactly one entry for each key of the
\* current layout, with the key's cumulative offset or (0, 0) when it has
\* none, and no entry for a key that the layout does not have, whatever
\* savedPositions holds; without a save callback the save does nothing.
SavedListExact ==
    [][\A onSaveLayout \in BOOLEAN :
          TriggerSaveWith(onSaveLayout)
          => IF onSaveLayout
             THEN /\ {stored'[n].category : n \in 1..Len(stored')} = DOMAIN blocks
                  /\ Len(stored') = Cardinality(DOMAIN blocks)
                  /\ \A n \in 1..Len(stored') :
                        LET c == stored'[n].category
                        IN IF c \in DOMAIN blockOffsets
                           THEN /\ stored'[n].offsetX = blockOffsets[c].offsetX
                                /\ stored'[n].offsetZ = blockOffsets[c].offsetZ
                           ELSE stored'[n].offsetX = 0 /\ stored'[n].offsetZ = 0
                  /\ UNCHANGED sceneVars
             ELSE UNCHANGED vars]_vars

\* a save has emitted the entry (0, 0) for 'art', whose stored offset the
\* rebuild had skipped, and no entry for 'web', which the city does not
\* have although savedPositions holds an offset for it
SavedListWitness ==
    /\ buildings # <<>> /\ savedFrom = buildings
    /\ DOMAIN blocks = {"art"}
    /\ "web" \in DOMAIN savedPositions /\ savedPositions["web"] # Offset(0, 0)
    /\ "art" \notin DOMAIN blockOffsets
    /\ stored = <<[category |-> "art", offsetX |-> 0, offsetZ |-> 0]>>

====
